---- MODULE Spec2Model ----
(***************************************************************************)
(* Model of the podcast JSON -> RSS converter (src/mod.ts).                *)
(*                                                                         *)
(*   convertToRSS  the pure mapping of a primary document (and an optional *)
(*                 uuid -> LatestEpisode map) to a feed; specification     *)
(*                 SpecMap applies it to documents drawn from bounded sets.*)
(*   handler       the request handler, one action per stretch of code     *)
(*                 between two awaits; specification Spec.                 *)
(*                                                                         *)
(* Encoding of JavaScript values                                           *)
(*   - a string that may be undefined is a TLA+ string, with Undef standing*)
(*     for undefined; '' is the empty string "";                           *)
(*   - a query parameter is [present, value]: present = FALSE is the null  *)
(*     of searchParams.get, value is the sequence of its characters;       *)
(*   - a duration is an integer number of 1/DurationScale seconds, so that *)
(*     125.9 is 1259;                                                      *)
(*   - episode uuids are integers, NoUuid standing for a missing uuid;     *)
(*   - a Map is [defined, keys, image]: defined = FALSE is undefined.      *)
(***************************************************************************)
EXTENDS Integers, Sequences, FiniteSets, TLC

VARIABLES
    pc,                    \* position of the handler (or of the SpecMap caller)
    req,                   \* the request being served
    podcastJsonUrl,        \* handler local, line 167
    latestPodcastJsonUrl,  \* handler local, lines 168-171
    podcastData,           \* handler local, line 178 / convertToRSS argument
    latestData,            \* handler local, line 190
    latestEpisodesMap,     \* handler local, line 181 / convertToRSS argument
    rssFeed,               \* result of convertToRSS, line 204
    response,              \* the Response the handler returned
    log                    \* the externally visible steps of this request, in order

vars == <<pc, req, podcastJsonUrl, latestPodcastJsonUrl, podcastData, latestData,
          latestEpisodesMap, rssFeed, response, log>>

----------------------------------------------------------------------------
(* Bounds of the model                                                     *)

\* longest episodes array of a primary document
MaxEpisodes == 12
\* longest episodes array of a secondary (latest episodes) document
MaxLatest == 2

\* durations are counted in tenths of a second
DurationScale == 10

----------------------------------------------------------------------------
(* JavaScript values                                                       *)

Undef == "<undefined>"
NoUuid == -1

\* JS truthiness of a possibly-undefined string
Truthy(s) == s # Undef /\ s # ""

\* a || b on possibly-undefined strings
OrElse(a, b) == IF Truthy(a) THEN a ELSE b

Max(a, b) == IF a >= b THEN a ELSE b
Min(a, b) == IF a <= b THEN a ELSE b

\* Array.prototype.slice(start, end): a negative bound counts from the end,
\* both are clamped to [0, len], and an empty range yields [].
RelativeIndex(len, i) == IF i < 0 THEN Max(len + i, 0) ELSE Min(i, len)

SliceNoWrap(s, start, end) ==
    SubSeq(s, Max(start, 0) + 1, Min(Max(end, 0), Len(s)))

Slice(s, start, end) ==
    SubSeq(s, RelativeIndex(Len(s), start) + 1, RelativeIndex(Len(s), end))

\* Math.floor of d / DurationScale (\div rounds toward minus infinity)
MathRound(d) == (2 * d + DurationScale) \div (2 * DurationScale)

MathFloor(d) == d \div DurationScale

\* truncation toward zero, for comparison with MathFloor
MathTrunc(d) == IF d >= 0 THEN d \div DurationScale ELSE -((-d) \div DurationScale)

----------------------------------------------------------------------------
(* Documents                                                               *)

\* sampled durations, in tenths of a second: 125.9, -1.5, 0.5, -0.5, 3, -2
Durations == <<1259, -15, 5, -5, 30, -20>>

\* the episode at 0-based index i of a document; its uuid is its index
\* (uuids are unique within a document), its duration rotates through
\* Durations starting at shift
MkEpisode(i, shift) ==
    [isNull |-> FALSE, uuid |-> i,
     duration |-> Durations[((i + shift) % Len(Durations)) + 1]]

MkEpisodes(n, shift) == [k \in 1..n |-> MkEpisode(k - 1, shift)]

\* a null element of an episodes array
NullEpisode == [isNull |-> TRUE, uuid |-> NoUuid, duration |-> 0]

\* the array eps with the element at 0-based index i replaced by null
WithNullAt(eps, i) == [k \in 1..Len(eps) |-> IF k = i + 1 THEN NullEpisode ELSE eps[k]]

\* Root, lines 36-44, by shape:
\*   isNull       the JSON value null
\*   hasPodcast   root.podcast is an object
\*   hasEpisodes  root.podcast.episodes is an array
MkRoot(isNull, hasPodcast, hasEpisodes, img, eps) ==
    [isNull |-> isNull, hasPodcast |-> hasPodcast, hasEpisodes |-> hasEpisodes,
     image_url |-> img, episodes |-> eps]

PodcastImages == {Undef, "", "http://x/p.jpg"}

ValidRoots(shifts) ==
    {MkRoot(FALSE, TRUE, TRUE, img, MkEpisodes(n, sh)) :
        n \in 0..MaxEpisodes, sh \in shifts, img \in PodcastImages}

\* documents on which the mapping throws
BrokenRoots ==
    {MkRoot(TRUE, FALSE, FALSE, Undef, <<>>),
     MkRoot(FALSE, FALSE, FALSE, Undef, <<>>),
     MkRoot(FALSE, TRUE, FALSE, "http://x/p.jpg", <<>>),
     MkRoot(FALSE, TRUE, TRUE, "http://x/p.jpg",
            WithNullAt(MkEpisodes(MaxEpisodes, 0), MaxEpisodes - 10))}

\* LatestEpisode, lines 46-56: uuid and image are all the mapping reads
LatestUuids == {NoUuid, 2, 3}
LatestImages == {Undef, "", "http://x/e.jpg"}
LatestEpisodes == [uuid : LatestUuids, image : LatestImages]

LatestSeqs == UNION {[1..n -> LatestEpisodes] : n \in 0..MaxLatest}

\* new Map(episodes.map(ep => [ep.uuid, ep])), line 192: last entry wins
UndefinedMap == [defined |-> FALSE, keys |-> {}, image |-> <<>>]

LastIndexOf(eps, u) ==
    CHOOSE i \in 1..Len(eps) :
        eps[i].uuid = u /\ \A j \in (i + 1)..Len(eps) : eps[j].uuid # u

NewMap(eps) ==
    LET ks == {eps[i].uuid : i \in 1..Len(eps)}
    IN  [defined |-> TRUE, keys |-> ks,
         image |-> [u \in ks |-> eps[LastIndexOf(eps, u)].image]]

\* latestEpisodesMap?.get(uuid)?.image
MapGetImage(map, uuid) ==
    IF map.defined /\ uuid \in map.keys THEN map.image[uuid] ELSE Undef

----------------------------------------------------------------------------
(* convertToRSS, lines 72-149                                              *)

ErrInvalid == "Invalid podcast JSON structure"
ErrNoEpisodes == "Cannot read properties of undefined (reading 'slice')"
ErrNullEpisode == "Cannot read properties of null (reading 'published')"
NoError == ""

\* line 113: the episodes that become items
SelectedWide(episodes) ==
    Slice(episodes, Len(episodes) - 10, Len(episodes) - 7)

Selected(episodes) ==
    Slice(episodes, Len(episodes) - 10, Len(episodes) - 8)

\* lines 131 and 136: the image of an episode
ResolveImagePodcastFirst(map, uuid, podcastImage) ==
    OrElse(OrElse(podcastImage, MapGetImage(map, uuid)), "")

ResolveImage(map, uuid, podcastImage) ==
    OrElse(OrElse(MapGetImage(map, uuid), podcastImage), "")

\* lines 115-144: one feed item
Item(episode, podcastImage, map) ==
    [guid |-> episode.uuid,
     itunes_duration |-> MathFloor(episode.duration),
     itunes_image |-> ResolveImage(map, episode.uuid, podcastImage),
     media_content_url |-> ResolveImage(map, episode.uuid, podcastImage)]

Thrown(msg) == [ok |-> FALSE, error |-> msg, image_url |-> "", items |-> <<>>]

NoFeed == Thrown(NoError)

convertToRSS(root, map) ==
    IF root.isNull \/ ~root.hasPodcast THEN Thrown(ErrInvalid)
    ELSE IF ~root.hasEpisodes THEN Thrown(ErrNoEpisodes)
    ELSE LET sel == Selected(root.episodes)
         IN  IF \E k \in 1..Len(sel) : sel[k].isNull
             THEN Thrown(ErrNullEpisode)
             ELSE [ok |-> TRUE, error |-> NoError,
                   image_url |-> OrElse(root.image_url, ""),
                   items |-> [k \in 1..Len(sel) |->
                                 Item(sel[k], root.image_url, map)]]

----------------------------------------------------------------------------
(* Values of the handler's variables before they are assigned              *)

NoParam == [present |-> FALSE, value |-> <<>>]
NoRequest == [path |-> "", method |-> "", url |-> NoParam, latestPodcastsUrl |-> NoParam]
NoRoot == MkRoot(TRUE, FALSE, FALSE, Undef, <<>>)
NoResponse ==
    [status |-> 0, headers |-> {}, kind |-> "none", text |-> "", message |-> "",
     feed |-> NoFeed]

\* a secondary body by shape (lines 190-196):
\*   "badJson"      not parseable as JSON
\*   "noEpisodes"   latestData?.podcast?.episodes is undefined or falsy
\*   "notArray"     episodes is a truthy value without a map method
\*   "nullElement"  episodes is an array holding a null
\*   "array"        episodes is an array of objects
MkLatestData(kind, eps) == [kind |-> kind, episodes |-> eps]
NoLatestData == MkLatestData("none", <<>>)

----------------------------------------------------------------------------
(* SpecMap: convertToRSS applied to every document and map of the bounds   *)

MapShifts == 0..(Len(Durations) - 1)

MapInputs == {UndefinedMap} \cup {NewMap(eps) : eps \in LatestSeqs}

InitMap ==
    /\ pc = "call"
    /\ podcastData \in ValidRoots(MapShifts) \cup BrokenRoots
    /\ latestEpisodesMap \in MapInputs
    /\ latestData = NoLatestData
    /\ rssFeed = NoFeed
    /\ req = NoRequest
    /\ podcastJsonUrl = <<>>
    /\ latestPodcastJsonUrl = NoParam
    /\ response = NoResponse
    /\ log = <<>>

CallConvertToRSS ==
    /\ pc = "call"
    /\ rssFeed' = convertToRSS(podcastData, latestEpisodesMap)
    /\ pc' = "returned"
    /\ UNCHANGED <<req, podcastJsonUrl, latestPodcastJsonUrl, podcastData,
                   latestData, latestEpisodesMap, response, log>>

NextMap == CallConvertToRSS

SpecMap == InitMap /\ [][NextMap]_vars

----------------------------------------------------------------------------
(* Claims about convertToRSS, checked under SpecMap                        *)

Called == pc = "returned"

Returned == Called /\ rssFeed.ok

\* the document has a podcast object whose episodes are episode objects
ValidDocument ==
    /\ ~podcastData.isNull
    /\ podcastData.hasPodcast
    /\ podcastData.hasEpisodes
    /\ \A k \in 1..Len(podcastData.episodes) : ~podcastData.episodes[k].isNull

NumEpisodes == Len(podcastData.episodes)

Guids == [k \in 1..Len(rssFeed.items) |-> rssFeed.items[k].guid]

\* the episode an item was made from (an episode's uuid is its 0-based index)
SourceOf(item) == podcastData.episodes[item.guid + 1]

\* C1: a document with n >= 10 episodes yields exactly two items, the
\* episodes at 0-based indices n-10 and n-9, in that order.
C1_TwoItemsFromTen ==
    (Called /\ ValidDocument /\ NumEpisodes >= 10)
        => (rssFeed.ok /\ Guids = <<NumEpisodes - 10, NumEpisodes - 9>>)

C1_Witness ==
    Returned /\ NumEpisodes = 12 /\ Guids = <<2, 3>>

\* C10: below ten episodes the slice yields the two items at indices 2n-10
\* and 2n-9 when 5 <= n <= 7 and none for any other n < 10; whatever the
\* length, a feed holds 0 or 2 items.
C10_ShortCatalog ==
    (Called /\ ValidDocument) =>
        /\ rssFeed.ok
        /\ (NumEpisodes < 10 /\ NumEpisodes >= 5 /\ NumEpisodes <= 7)
               => Guids = <<2 * NumEpisodes - 10, 2 * NumEpisodes - 9>>
        /\ (NumEpisodes < 10 /\ ~(NumEpisodes >= 5 /\ NumEpisodes <= 7))
               => Guids = <<>>
        /\ Len(rssFeed.items) \in {0, 2}

C10_Witness ==
    Returned /\ NumEpisodes = 6 /\ Guids = <<2, 3>>

\* the image the claim C7 names for an item: the map entry's image when the
\* map has an entry for the uuid (and the entry has an image field), else
\* the podcast image, else ''
ClaimedImage(item) ==
    IF MapGetImage(latestEpisodesMap, item.guid) # Undef
    THEN MapGetImage(latestEpisodesMap, item.guid)
    ELSE IF podcastData.image_url # Undef THEN podcastData.image_url ELSE ""

\* C7 as claimed: itunes:image href and media:content url are equal, and are
\* the enrichment entry's image whenever the map has an entry for the uuid,
\* else the podcast image, else ''.
C7_EntryAlwaysWins ==
    Returned =>
        \A k \in 1..Len(rssFeed.items) :
            /\ rssFeed.items[k].itunes_image = rssFeed.items[k].media_content_url
            /\ rssFeed.items[k].itunes_image = ClaimedImage(rssFeed.items[k])

\* C7 as amended: both attributes are equal, and are the entry's image when
\* the map has an entry for the uuid whose image is a non-empty string, else
\* the podcast image when that is a non-empty string, else ''.
C7_ImagePriority ==
    Returned =>
        \A k \in 1..Len(rssFeed.items) :
            LET item == rssFeed.items[k]
                entry == MapGetImage(latestEpisodesMap, item.guid)
            IN  /\ item.itunes_image = item.media_content_url
                /\ item.itunes_image =
                       IF entry \notin {Undef, ""} THEN entry
                       ELSE IF podcastData.image_url \notin {Undef, ""}
                            THEN podcastData.image_url
                            ELSE ""

C7_Witness ==
    /\ Returned
    /\ podcastData.image_url = "http://x/p.jpg"
    /\ Len(rssFeed.items) = 2
    /\ MapGetImage(latestEpisodesMap, rssFeed.items[1].guid) = "http://x/e.jpg"
    /\ rssFeed.items[1].itunes_image = "http://x/e.jpg"
    /\ MapGetImage(latestEpisodesMap, rssFeed.items[2].guid) = ""
    /\ rssFeed.items[2].itunes_image = "http://x/p.jpg"

\* C8 as claimed: itunes:duration is the duration truncated toward zero, for
\* every duration, negative fractional ones included.
C8_TruncatesTowardZero ==
    Returned =>
        \A k \in 1..Len(rssFeed.items) :
            rssFeed.items[k].itunes_duration
                = MathTrunc(SourceOf(rssFeed.items[k]).duration)

\* C8 as amended: itunes:duration is the greatest integer not above the
\* duration (never the nearest integer); that is the truncation toward zero
\* for every duration >= 0 and for every whole negative one, and one below
\* it for a negative fractional duration.
C8_FloorsDuration ==
    Returned =>
        \A k \in 1..Len(rssFeed.items) :
            LET d == SourceOf(rssFeed.items[k]).duration
                out == rssFeed.items[k].itunes_duration
            IN  /\ out * DurationScale <= d
                /\ d < (out + 1) * DurationScale
                /\ (d >= 0 \/ d % DurationScale = 0) => out = MathTrunc(d)
                /\ (d < 0 /\ d % DurationScale # 0) => out = MathTrunc(d) - 1

C8_Witness ==
    /\ Returned
    /\ Len(rssFeed.items) = 2
    /\ SourceOf(rssFeed.items[1]).duration = 1259
    /\ rssFeed.items[1].itunes_duration = 125
    /\ SourceOf(rssFeed.items[2]).duration = -15
    /\ rssFeed.items[2].itunes_duration = -2

----------------------------------------------------------------------------
(* decodeURIComponent, lines 167 and 170                                   *)

HexDigits == <<"0", "1", "2", "3", "4", "5", "6", "7", "8", "9",
               "A", "B", "C", "D", "E", "F">>
LowerHex == <<"a", "b", "c", "d", "e", "f">>

IsHex(c) ==
    \/ \E i \in 1..Len(HexDigits) : HexDigits[i] = c
    \/ \E i \in 1..Len(LowerHex) : LowerHex[i] = c

HexValue(c) ==
    IF \E i \in 1..Len(HexDigits) : HexDigits[i] = c
    THEN (CHOOSE i \in 1..Len(HexDigits) : HexDigits[i] = c) - 1
    ELSE (CHOOSE i \in 1..Len(LowerHex) : LowerHex[i] = c) + 9

\* the printable ASCII characters, from code 32 to code 126
Ascii == <<" ", "!", "\"", "#", "$", "%", "&", "'", "(", ")", "*", "+", ",",
           "-", ".", "/", "0", "1", "2", "3", "4", "5", "6", "7", "8", "9",
           ":", ";", "<", "=", ">", "?", "@", "A", "B", "C", "D", "E", "F",
           "G", "H", "I", "J", "K", "L", "M", "N", "O", "P", "Q", "R", "S",
           "T", "U", "V", "W", "X", "Y", "Z", "[", "\\", "]", "^", "_", "<backtick>",
           "a", "b", "c", "d", "e", "f", "g", "h", "i", "j", "k", "l", "m",
           "n", "o", "p", "q", "r", "s", "t", "u", "v", "w", "x", "y", "z",
           "{", "|", "}", "~">>

\* the character of a one-byte escape; control characters are kept as one
\* opaque character, and so is the backtick, which a TLA+ string cannot hold
FromCharCode(b) == IF b >= 32 /\ b <= 126 THEN Ascii[b - 31] ELSE "<control>"

ErrURI == "URI malformed"

\* a % must be followed by two hex digits; a byte of 0x80 or more must start
\* a well-formed UTF-8 sequence of further escapes, which none of the sampled
\* parameters holds, so it is malformed here
RECURSIVE decodeURIComponent(_)
decodeURIComponent(s) ==
    IF s = <<>> THEN [ok |-> TRUE, value |-> <<>>]
    ELSE IF Head(s) # "%"
         THEN LET rest == decodeURIComponent(Tail(s))
              IN  [ok |-> rest.ok,
                   value |-> IF rest.ok THEN <<Head(s)>> \o rest.value ELSE <<>>]
    ELSE IF Len(s) < 3 \/ ~IsHex(s[2]) \/ ~IsHex(s[3])
              \/ 16 * HexValue(s[2]) + HexValue(s[3]) >= 128
         THEN [ok |-> FALSE, value |-> <<>>]
    ELSE LET rest == decodeURIComponent(SubSeq(s, 4, Len(s)))
         IN  [ok |-> rest.ok,
              value |-> IF rest.ok
                        THEN <<FromCharCode(16 * HexValue(s[2]) + HexValue(s[3]))>>
                                 \o rest.value
                        ELSE <<>>]

----------------------------------------------------------------------------
(* Requests                                                                *)

Paths == {"/convert", "/other"}
Methods == {"GET", "POST"}

\* query parameter values as searchParams.get returns them:
\* '', 'a', '%41' (decodes to 'A') and the malformed '%4'
ParamValues == {<<>>, <<"a">>, <<"%", "4", "1">>, <<"%", "4">>}
Params == {NoParam} \cup {[present |-> TRUE, value |-> v] : v \in ParamValues}

Requests == [path : Paths, method : Methods, url : Params, latestPodcastsUrl : Params]

\* !urlParam, line 161: null or ''
MissingParamNullOnly(param) == ~param.present

MissingParam(param) == ~param.present \/ param.value = <<>>

\* if (latestPodcastJsonUrl), line 182
WantsSecondaryAlways(latestUrl) == TRUE

WantsSecondary(latestUrl) == latestUrl.present /\ latestUrl.value # <<>>

----------------------------------------------------------------------------
(* Responses                                                               *)

ContentTypeRss == <<"Content-Type", "application/rss+xml; charset=utf-8">>

\* lines 155 and 162: a plain-text response
TextResponse(status, text) ==
    [status |-> status, headers |-> {}, kind |-> "text", text |-> text,
     message |-> "", feed |-> NoFeed]

\* lines 210-216: the outer catch
ErrorResponse(msg) ==
    [status |-> 500, headers |-> {}, kind |-> "text",
     text |-> "Failed to convert podcast JSON: ", message |-> msg, feed |-> NoFeed]

\* lines 207-209
FeedResponse(feed) ==
    [status |-> 200, headers |-> {ContentTypeRss}, kind |-> "feed", text |-> "",
     message |-> "", feed |-> feed]

\* lines 204-216: convert, then answer with the feed or with the exception
ConvertAndRespond(root, map) ==
    LET rss == convertToRSS(root, map)
    IN  IF rss.ok THEN FeedResponse(rss) ELSE ErrorResponse(rss.error)

\* lines 183-200: an exception of the secondary fetch is caught and logged,
\* and the handler goes on without a map
InnerCatchRethrows(msg, root) == ErrorResponse(msg)

InnerCatch(msg, root) == ConvertAndRespond(root, UndefinedMap)

\* line 162 (its backticks left out)
ErrMissingUrl == "Missing required url query parameter"
ErrNetwork == "error sending request"
ErrStatus == "Failed to fetch podcast JSON: Not Found from <url>"
ErrJson == "Unexpected token in JSON"
ErrNotArray == "latestData.podcast.episodes.map is not a function"
ErrNullLatest == "Cannot read properties of null (reading 'uuid')"

\* line 174-177: which outcomes of the primary fetch throw
PrimaryFetchThrowsOnNetworkOnly(outcome) == outcome = "networkError"

PrimaryFetchThrows(outcome) == outcome \in {"networkError", "notOk"}

PrimaryFetchError(outcome) == IF outcome = "networkError" THEN ErrNetwork ELSE ErrStatus

FetchOutcomes == {"networkError", "notOk", "ok"}

\* bodies of the primary URL: unparseable, or a JSON value
HandlerShifts == {0}
PrimaryBodies ==
    {[parses |-> FALSE, root |-> NoRoot]}
        \cup {[parses |-> TRUE, root |-> r] : r \in ValidRoots(HandlerShifts) \cup BrokenRoots}

\* bodies of the secondary URL
SecondaryBodies ==
    {MkLatestData(k, <<>>) : k \in {"badJson", "noEpisodes", "notArray", "nullElement"}}
        \cup {MkLatestData("array", eps) : eps \in LatestSeqs}

Event(ev, arg) == [ev |-> ev, arg |-> arg]

----------------------------------------------------------------------------
(* handler, lines 152-217                                                  *)

Init ==
    /\ pc = "idle"
    /\ req = NoRequest
    /\ podcastJsonUrl = <<>>
    /\ latestPodcastJsonUrl = NoParam
    /\ podcastData = NoRoot
    /\ latestData = NoLatestData
    /\ latestEpisodesMap = UndefinedMap
    /\ rssFeed = NoFeed
    /\ response = NoResponse
    /\ log = <<>>

\* the response is returned: the request is over
Return(resp, events) ==
    /\ response' = resp
    /\ rssFeed' = IF resp.kind = "feed" THEN resp.feed ELSE NoFeed
    /\ log' = log \o events \o <<Event("respond", "")>>
    /\ pc' = "done"

\* serve() calls the handler with a request, line 220
Receive ==
    /\ pc = "idle"
    /\ \E r \in Requests : req' = r
    /\ pc' = "handler"
    /\ UNCHANGED <<podcastJsonUrl, latestPodcastJsonUrl, podcastData, latestData,
                   latestEpisodesMap, rssFeed, response, log>>

\* serve() has written the response, line 220: the handler's invocation is
\* over and its locals are gone; the next invocation starts with fresh ones
ResponseWritten ==
    /\ pc = "done"
    /\ pc' = "idle"
    /\ req' = NoRequest
    /\ podcastJsonUrl' = <<>>
    /\ latestPodcastJsonUrl' = NoParam
    /\ podcastData' = NoRoot
    /\ latestData' = NoLatestData
    /\ latestEpisodesMap' = UndefinedMap
    /\ rssFeed' = NoFeed
    /\ response' = NoResponse
    /\ log' = <<>>

\* lines 153-174: routing, parameter validation, decoding, and the start of
\* the primary fetch
HandlerStart ==
    /\ pc = "handler"
    /\ UNCHANGED <<req, podcastData, latestData, latestEpisodesMap>>
    /\ IF req.path # "/convert"
       THEN /\ Return(TextResponse(404, "Not Found"), <<>>)
            /\ UNCHANGED <<podcastJsonUrl, latestPodcastJsonUrl>>
       ELSE IF MissingParam(req.url)
       THEN /\ Return(TextResponse(400, ErrMissingUrl), <<>>)
            /\ UNCHANGED <<podcastJsonUrl, latestPodcastJsonUrl>>
       ELSE LET u == decodeURIComponent(req.url.value)
                wantsLatest == ~MissingParam(req.latestPodcastsUrl)
                l == decodeURIComponent(req.latestPodcastsUrl.value)
            IN  IF ~u.ok
                THEN /\ Return(ErrorResponse(ErrURI), <<>>)
                     /\ UNCHANGED <<podcastJsonUrl, latestPodcastJsonUrl>>
                ELSE IF wantsLatest /\ ~l.ok
                THEN /\ Return(ErrorResponse(ErrURI), <<>>)
                     /\ podcastJsonUrl' = u.value
                     /\ UNCHANGED latestPodcastJsonUrl
                ELSE /\ podcastJsonUrl' = u.value
                     /\ latestPodcastJsonUrl' =
                            IF wantsLatest THEN [present |-> TRUE, value |-> l.value]
                            ELSE NoParam
                     /\ log' = Append(log, Event("fetchPrimary", ""))
                     /\ pc' = "awaitPrimaryFetch"
                     /\ UNCHANGED <<response, rssFeed>>

\* lines 174-178: the primary fetch settles
PrimaryFetchSettles ==
    /\ pc = "awaitPrimaryFetch"
    /\ UNCHANGED <<req, podcastJsonUrl, latestPodcastJsonUrl, podcastData,
                   latestData, latestEpisodesMap>>
    /\ \E outcome \in FetchOutcomes :
          IF PrimaryFetchThrows(outcome)
          THEN Return(ErrorResponse(PrimaryFetchError(outcome)),
                      <<Event("primaryFetch", outcome)>>)
          ELSE /\ log' = Append(log, Event("primaryFetch", outcome))
               /\ pc' = "awaitPrimaryJson"
               /\ UNCHANGED <<response, rssFeed>>

\* lines 178-184, and 204-216 when there is no secondary URL: the primary
\* body is parsed
PrimaryJsonSettles ==
    /\ pc = "awaitPrimaryJson"
    /\ UNCHANGED <<req, podcastJsonUrl, latestPodcastJsonUrl, latestData,
                   latestEpisodesMap>>
    /\ \E body \in PrimaryBodies :
          IF ~body.parses
          THEN /\ Return(ErrorResponse(ErrJson), <<Event("primaryJson", "bad")>>)
               /\ UNCHANGED podcastData
          ELSE /\ podcastData' = body.root
               /\ IF WantsSecondary(latestPodcastJsonUrl)
                  THEN /\ log' = log \o <<Event("primaryJson", "ok"),
                                          Event("fetchSecondary", "")>>
                       /\ pc' = "awaitSecondaryFetch"
                       /\ UNCHANGED <<response, rssFeed>>
                  ELSE Return(ConvertAndRespond(body.root, UndefinedMap),
                              <<Event("primaryJson", "ok"), Event("convert", "")>>)

\* lines 184-190, and 198-216 when the fetch failed: the secondary fetch
\* settles
SecondaryFetchSettles ==
    /\ pc = "awaitSecondaryFetch"
    /\ UNCHANGED <<req, podcastJsonUrl, latestPodcastJsonUrl, podcastData,
                   latestData, latestEpisodesMap>>
    /\ \E outcome \in FetchOutcomes :
          CASE outcome = "networkError" ->
                 Return(InnerCatch(ErrNetwork, podcastData),
                        <<Event("secondaryFetch", outcome), Event("convert", "")>>)
            [] outcome = "notOk" ->
                 Return(ConvertAndRespond(podcastData, UndefinedMap),
                        <<Event("secondaryFetch", outcome), Event("convert", "")>>)
            [] outcome = "ok" ->
                 /\ log' = Append(log, Event("secondaryFetch", outcome))
                 /\ pc' = "awaitSecondaryJson"
                 /\ UNCHANGED <<response, rssFeed>>

\* lines 190-216: the secondary body is parsed, the map is built, the feed is
\* converted and returned
SecondaryJsonSettles ==
    /\ pc = "awaitSecondaryJson"
    /\ UNCHANGED <<req, podcastJsonUrl, latestPodcastJsonUrl, podcastData>>
    /\ \E body \in SecondaryBodies :
          LET events == <<Event("secondaryJson", body.kind), Event("convert", "")>>
          IN  CASE body.kind = "badJson" ->
                     /\ Return(InnerCatch(ErrJson, podcastData), events)
                     /\ UNCHANGED <<latestData, latestEpisodesMap>>
                [] body.kind = "noEpisodes" ->
                     /\ latestData' = body
                     /\ Return(ConvertAndRespond(podcastData, UndefinedMap), events)
                     /\ UNCHANGED latestEpisodesMap
                [] body.kind = "notArray" ->
                     /\ latestData' = body
                     /\ Return(InnerCatch(ErrNotArray, podcastData), events)
                     /\ UNCHANGED latestEpisodesMap
                [] body.kind = "nullElement" ->
                     /\ latestData' = body
                     /\ Return(InnerCatch(ErrNullLatest, podcastData), events)
                     /\ UNCHANGED latestEpisodesMap
                [] body.kind = "array" ->
                     /\ latestData' = body
                     /\ latestEpisodesMap' = NewMap(body.episodes)
                     /\ Return(ConvertAndRespond(podcastData, NewMap(body.episodes)),
                               events)

Next ==
    \/ Receive
    \/ ResponseWritten
    \/ HandlerStart
    \/ PrimaryFetchSettles
    \/ PrimaryJsonSettles
    \/ SecondaryFetchSettles
    \/ SecondaryJsonSettles

Spec == Init /\ [][Next]_vars

----------------------------------------------------------------------------
(* Claims about the handler, checked under Spec                            *)

Done == pc = "done"

Logged(ev, arg) == \E i \in 1..Len(log) : log[i] = Event(ev, arg)

Count(ev) == Cardinality({i \in 1..Len(log) : log[i].ev = ev})

FetchIssued == \E i \in 1..Len(log) : log[i].ev \in {"fetchPrimary", "fetchSecondary"}

\* the request passed routing and parameter validation
Validated == req.path = "/convert" /\ req.url.present /\ req.url.value # <<>>

LatestGiven == req.latestPodcastsUrl.present /\ req.latestPodcastsUrl.value # <<>>

HasHeader(name) == \E h \in response.headers : h[1] = name

\* C2: every 200 response carries an X-Podcast-Metadata header next to
\* Content-Type: application/rss+xml; charset=utf-8.
C2_MetadataHeader ==
    (Done /\ response.status = 200)
        => (ContentTypeRss \in response.headers /\ HasHeader("X-Podcast-Metadata"))

\* C4: a request whose path is not /convert or whose method is not GET is
\* answered 404, and no fetch is issued for it.
C4_OnlyGetConvert ==
    (pc # "idle" /\ (req.path # "/convert" \/ req.method # "GET"))
        => (~FetchIssued /\ (Done => response.status = 404))

\* C5: /convert without a url parameter (absent or empty) is answered 400
\* with a descriptive body, whatever the other parameters.
C5_MissingUrlIs400 ==
    (Done /\ req.path = "/convert" /\ (~req.url.present \/ req.url.value = <<>>))
        => /\ response.status = 400
           /\ response.kind = "text"
           /\ response.text = ErrMissingUrl
           /\ ~FetchIssued

C5_Witness ==
    /\ Done
    /\ req.path = "/convert"
    /\ req.url = [present |-> TRUE, value |-> <<>>]
    /\ req.latestPodcastsUrl = [present |-> TRUE, value |-> <<"a">>]
    /\ response.status = 400

\* the response the outer catch builds for an exception with message msg
IsError500(msg) ==
    /\ response.status = 500
    /\ response.kind = "text"
    /\ response.text = "Failed to convert podcast JSON: "
    /\ response.message = msg
    /\ response.feed = NoFeed
    /\ response.headers = {}

PrimaryParsed == Logged("primaryJson", "ok")

\* a null among the episodes the mapping reads (0-based n-10 and n-9)
NullSelected ==
    /\ podcastData.hasEpisodes
    /\ NumEpisodes >= 10
    /\ \/ podcastData.episodes[NumEpisodes - 9].isNull
       \/ podcastData.episodes[NumEpisodes - 8].isNull

\* C6: once the url parameter is present, every error of the primary path
\* (malformed percent-encoding of a parameter, network failure, non-success
\* status, unparseable body, no podcast object, an exception of the mapping)
\* ends in a 500 whose body holds the error's message, never in a 200 or a
\* partial feed.
C6_PrimaryErrorIs500 ==
    (Done /\ Validated) =>
        /\ (~decodeURIComponent(req.url.value).ok
              \/ (LatestGiven /\ ~decodeURIComponent(req.latestPodcastsUrl.value).ok))
               => (IsError500(ErrURI) /\ ~FetchIssued)
        /\ Logged("primaryFetch", "networkError") => IsError500(ErrNetwork)
        /\ Logged("primaryFetch", "notOk") => IsError500(ErrStatus)
        /\ Logged("primaryJson", "bad") => IsError500(ErrJson)
        /\ (PrimaryParsed /\ (podcastData.isNull \/ ~podcastData.hasPodcast))
               => IsError500(ErrInvalid)
        /\ (PrimaryParsed /\ podcastData.hasPodcast /\ ~podcastData.hasEpisodes)
               => IsError500(ErrNoEpisodes)
        /\ (PrimaryParsed /\ NullSelected) => IsError500(ErrNullEpisode)

C6_Witness ==
    /\ Done
    /\ Validated
    /\ PrimaryParsed
    /\ Logged("secondaryJson", "array")
    /\ latestEpisodesMap.keys = {2, 3}
    /\ podcastData.hasPodcast
    /\ ~podcastData.hasEpisodes
    /\ IsError500(ErrNoEpisodes)

\* an entry of a secondary episodes array that cannot enrich any episode
MalformedEntry(ep) == ep.uuid = NoUuid \/ ep.image = Undef

\* the outcomes of the secondary fetch the claim C3 lists
SecondaryFailed ==
    \/ Logged("secondaryFetch", "networkError")
    \/ Logged("secondaryFetch", "notOk")
    \/ \E k \in {"badJson", "noEpisodes", "notArray", "nullElement"} :
          Logged("secondaryJson", k)
    \/ /\ Logged("secondaryJson", "array")
       /\ latestData.episodes # <<>>
       /\ \A i \in 1..Len(latestData.episodes) : MalformedEntry(latestData.episodes[i])

\* a 200 feed whose every item carries the podcast-level image (or '')
IsFallbackFeed ==
    /\ response.status = 200
    /\ response.kind = "feed"
    /\ response.feed.ok
    /\ \A k \in 1..Len(response.feed.items) :
          /\ response.feed.items[k].itunes_image
                = (IF podcastData.image_url \in {Undef, ""} THEN ""
                   ELSE podcastData.image_url)
          /\ response.feed.items[k].media_content_url
                = response.feed.items[k].itunes_image

\* C3 as claimed: when the primary fetch succeeded and the primary document
\* has a podcast object, every failure of the secondary fetch leaves a 200
\* feed built without enrichment.
C3_SecondaryFailureGives200 ==
    (Done /\ PrimaryParsed /\ ~podcastData.isNull /\ podcastData.hasPodcast
          /\ SecondaryFailed)
        => IsFallbackFeed

\* C3 as amended: the same when the podcast object's episodes value is an
\* array of episode objects; and whatever the primary document, a failed
\* secondary fetch leaves the response that the document yields without
\* enrichment.
C3_SecondaryFailureIsSwallowed ==
    (Done /\ PrimaryParsed /\ SecondaryFailed) =>
        /\ ValidDocument
               => (IsFallbackFeed /\ response.feed = convertToRSS(podcastData, UndefinedMap))
        /\ response.status = 500
               => (/\ ~convertToRSS(podcastData, UndefinedMap).ok
                   /\ response.message = convertToRSS(podcastData, UndefinedMap).error)

C3_Witness ==
    /\ Done
    /\ Logged("secondaryJson", "notArray")
    /\ podcastData.image_url = "http://x/p.jpg"
    /\ response.status = 200
    /\ Len(response.feed.items) = 2
    /\ response.feed.items[1].itunes_image = "http://x/p.jpg"

\* the secondary fetch has finished: it failed, or its body was read
SecondaryFinishedAt(k) ==
    \/ log[k] \in {Event("secondaryFetch", "networkError"), Event("secondaryFetch", "notOk")}
    \/ log[k].ev = "secondaryJson"

\* C9: no fetch before parameter validation succeeds; the secondary fetch
\* starts only after the primary fetch succeeded and its body was parsed,
\* never after a primary failure and never without latestPodcastsUrl; the
\* mapping starts only after the secondary fetch, if any, has finished; one
\* response per request.
C9_StrictOrder ==
    /\ FetchIssued => Validated
    /\ Count("fetchPrimary") <= 1 /\ Count("fetchSecondary") <= 1
    /\ \A i \in 1..Len(log) :
          log[i].ev = "fetchSecondary" =>
              /\ LatestGiven
              /\ \E j \in 1..(i - 1) : log[j] = Event("fetchPrimary", "")
              /\ \E j \in 1..(i - 1) : log[j] = Event("primaryFetch", "ok")
              /\ \E j \in 1..(i - 1) : log[j] = Event("primaryJson", "ok")
    /\ (\/ Logged("primaryFetch", "networkError")
        \/ Logged("primaryFetch", "notOk")
        \/ Logged("primaryJson", "bad")) => Count("fetchSecondary") = 0
    /\ \A i \in 1..Len(log) :
          log[i].ev = "convert" =>
              /\ \E j \in 1..(i - 1) : log[j] = Event("primaryJson", "ok")
              /\ \A j \in 1..Len(log) :
                    log[j].ev = "fetchSecondary" =>
                        \E k \in (j + 1)..(i - 1) : SecondaryFinishedAt(k)
    /\ Count("respond") = (IF Done THEN 1 ELSE 0)
    /\ Done => (log[Len(log)].ev = "respond" /\ response.status \in {200, 400, 404, 500})
    /\ ~Done => response = NoResponse

C9_Witness ==
    /\ Done
    /\ log = <<Event("fetchPrimary", ""), Event("primaryFetch", "ok"),
               Event("primaryJson", "ok"), Event("fetchSecondary", ""),
               Event("secondaryFetch", "ok"), Event("secondaryJson", "array"),
               Event("convert", ""), Event("respond", "")>>
    /\ response.status = 200
====
